---- MODULE Spec2Model ----
(***************************************************************************)
(* The Berkeley Pac-Man adapter (src/pacman/adapter.py): the experiment    *)
(* orchestrator BerkeleyAdapter (construction, start, execute, stop) and   *)
(* the Pac-Man per-agent adapter BerkeleyAdapterAgent.  The simulator, the *)
(* responder behind the channel and the ghost adapters (agents.py) are not *)
(* part of the sources; they appear as the environment of the adapter.     *)
(***************************************************************************)
EXTENDS Integers, Sequences, FiniteSets, TLC

\* ---------------------------------------------------------------- bounds
MaxRuns == 2        \* largest learn_runs / test_runs tried
MaxTurns == 2       \* simulator turns per game
MaxNoise == 1       \* largest noise magnitude tried

\* ------------------------------------------------------ program constants
DEFAULT_NOISE == 0
pacman_index == 0
MinGhosts == 1
MaxGhosts == 4

None == "None"
NORTH == "North"

\* The role names _register accepts.
PacmanRoles == {"random", "random2", "ai", "eater"}
\* The ghost_agent values __init__ accepts.
GhostRoles == {"random", "ai"}

\* ------------------------------------------------ inputs that are tried
PacmanAgentChoices == {"random", "ai", "bogus"}
GhostAgentChoices == GhostRoles \cup {"bogus"}
NumGhostsChoices == {0, 2, 5}
\* What get_berkeley_layout returns: nothing, or a layout with its size.
Layout(w, h) == [width |-> w, height |-> h]
NoLayout == Layout(0, 0)
\* Answers of the responder to a State message during a game, and to the
\* State message of a finished game (which has no legal actions left).
ReplyActions == {"South", "Stop"}
FinalReplyActions == {"Stop"}
\* What the policy file holds when start() reads it: no file, or a mapping
\* with an entry for every agent.
PolicyFiles == {"absent", "pacman"}

Labels == {"seek", "flee"}

\* ------------------------------------------------------------- variables
VARIABLES
  cfg,       \* the arguments of BerkeleyAdapter.__init__
  env,       \* the simulator and responder: the sets their outputs come from
  noise,     \* the class attribute BerkeleyAdapterAgent.noise
  pc,        \* position of the run: __init__, start, execute, stop
  error,     \* the exception that ended the run, or None
  loop,      \* which for-loop of execute is running: "learn" or "test"
  x,         \* the loop variable of that for-loop
  score,     \* the local variable score of execute
  results,   \* BerkeleyAdapter.results (created by start, empty before)
  policies,  \* BerkeleyAdapter.policies: the ids that have a policy
  pacman,    \* the fields of the BerkeleyAdapterAgent
  ghosts,    \* the ghost adapters, by agent id
  sim,       \* the running game of the simulator
  wire,      \* the last message Pac-Man's adapter handed to its channel
  gwire,     \* the last message a ghost adapter handed to its channel
  files,     \* which output files have been written
  hist       \* bookkeeping of calls, for stating properties

vars == <<cfg, env, noise, pc, error, loop, x, score, results, policies,
          pacman, ghosts, sim, wire, gwire, files, hist>>

\* ---------------------------------------------------------- small helpers
Reverse(pos) == <<pos[2], pos[1]>>

Cells(layout) == (0 .. layout.width - 1) \X (0 .. layout.height - 1)

GhostIds == 1 .. cfg.num_ghosts

NoSim == [score |-> 0, turn |-> 0, who |-> 0]

\* Placeholders for what does not exist yet.
NoGameState == [score |-> 0, pacman |-> <<0, 0>>, ghosts |-> <<>>]
NoMessage == [kind |-> None]
NoResults == [learn_scores |-> <<>>, test_scores |-> <<>>,
              behavior_count |-> <<>>]

NoHist == [experiments |-> 0,       \* calls of pacman.start_experiment
           setup |-> <<>>,          \* kinds Pac-Man sent in start_experiment
           starts |-> [id \in 0 .. MaxGhosts |-> 0],
                                    \* start_game calls this episode, by id
           decides |-> 0,           \* State messages of Pac-Man this episode
           prev_obs |-> 0,          \* score seen by the decide before the last
           last_obs |-> 0,          \* score seen by the last decide
           sent_in |-> None,        \* loop in which Pac-Man's last State went
           gsent_in |-> None,       \* loop in which a ghost's last State went
           reported |-> <<>>,       \* the counts the ghosts reported last
           switches |-> 0,          \* times execute switched to test mode
           replies |-> 0,           \* answers Pac-Man received this episode
           last_reply |-> NORTH,    \* action of the last of these answers
           finishes |-> 0,          \* calls of pacman.finish_game
           prev_reply |-> NORTH,    \* last_reply when the last State went
           at_start |-> [agent_type |-> None],
                                    \* the adapter as start_game found it
           rewards |-> 0]           \* sum of the rewards sent this episode

\* -------------------------------------------------- BerkeleyAdapterAgent
\* __init__ (269-281): no validation of agent_type happens here.
\* previous_score and previous_action do not exist before the first
\* start_game, and nothing reads them before it: they start as 0 and NORTH.
BerkeleyAdapterAgent(agent_type) ==
  [agent_type |-> agent_type,
   agent_class |-> None,
   policy |-> None,
   game_state |-> NoGameState,
   is_test_mode |-> FALSE,
   layout |-> NoLayout,
   previous_score |-> 0,
   previous_action |-> NORTH,
   scores |-> <<>>]

\* Before __init__ ran there is no adapter object.
NoAgent == BerkeleyAdapterAgent(None)
Exists(a) == a.agent_type # None

\* A _reset_game_data that forgets the score.
reset_game_data_keeps_score(a) == [a EXCEPT !.previous_action = NORTH]

\* A _reset_game_data that forgets the action.
reset_game_data_keeps_action(a) == [a EXCEPT !.previous_score = 0]

\* _reset_game_data (344-346)
reset_game_data(a) ==
  [a EXCEPT !.previous_score = 0, !.previous_action = NORTH]

\* _request_game_start (348-354)
RequestGameStartMessage(a) ==
  [kind |-> "RequestGameStart", agent_id |-> pacman_index,
   map_width |-> a.layout.width, map_height |-> a.layout.height]

\* A start_game that also puts the adapter back into learning mode.
start_game_leaves_test_mode(a) ==
  [a EXCEPT !.previous_score = 0, !.previous_action = NORTH,
            !.is_test_mode = FALSE]

\* start_game (339-342): the adapter after the call
start_game(a) == reset_game_data(a)

\* A _noise_error whose upper end is one too far, as random.randint(-n, n + 1)
\* would be.
noise_error_inclusive(n) == (-n) .. (n + 1)

\* _noise_error (422-424): the values random.randrange(-n, n + 1) can return
noise_error(n) == (-n) .. n

\* The offsets send_state can draw for the ghosts of one game state: two
\* independent calls of _noise_error per ghost (386-387).
NoiseDraws(n, count) == [1 .. count -> noise_error(n) \X noise_error(n)]

\* send_state (380-388): the reported positions.  Pac-Man's own position is
\* reversed and taken as it is; every ghost's is reversed and jittered.
agent_positions(gs, errs) ==
  [id \in 0 .. Len(gs.ghosts) |->
     IF id = pacman_index
     THEN Reverse(gs.pacman)
     ELSE <<Reverse(gs.ghosts[id])[1] + errs[id][1],
            Reverse(gs.ghosts[id])[2] + errs[id][2]>>]

\* A _calculate_reward that reports the score itself.
calculate_reward_absolute(a, current_score) == current_score

\* _calculate_reward (435-436)
calculate_reward(a, current_score) == current_score - a.previous_score

\* A StateMessage that leaves test_mode at its default.
StateMessage_without_test_mode(a, errs) ==
  [kind |-> "State",
   agent_id |-> pacman_index,
   agent_positions |-> agent_positions(a.game_state, errs),
   reward |-> a.game_state.score - a.previous_score,
   executed_action |-> a.previous_action,
   test_mode |-> FALSE]

\* send_state (406-418): the message built from the stored game state
StateMessage(a, errs) ==
  [kind |-> "State",
   agent_id |-> pacman_index,
   agent_positions |-> agent_positions(a.game_state, errs),
   reward |-> calculate_reward(a, a.game_state.score),
   executed_action |-> a.previous_action,
   test_mode |-> a.is_test_mode]

\* A send_state that does not remember the score it reported.
send_state_keeps_previous_score(a) == a

\* send_state (407): the adapter after the message was built
send_state(a) == [a EXCEPT !.previous_score = a.game_state.score]

\* A receive_action that hands back the default instead of the answer.
receive_action_default(action_message) == NORTH

\* receive_action (426-429): the action of the message send_state returned
receive_action(action_message) == action_message.action

\* getAction (291-292) up to the point where communicate has the message
\* and the answer is awaited: the state is stored and sent
getAction_request(a, game_state) ==
  send_state([a EXCEPT !.game_state = game_state])

\* getAction (292-294) from the arrival of the answer: its action is kept
\* and returned
getAction_return(a, action_message) ==
  [a EXCEPT !.previous_action = receive_action(action_message)]

\* getAction (289-294), the whole call
getAction(a, game_state, action_message) ==
  getAction_return(getAction_request(a, game_state), action_message)

\* An enable_test_mode that sets nothing.
enable_test_mode_noop(a) == a

\* enable_test_mode (438-440)
enable_test_mode(a) == [a EXCEPT !.is_test_mode = TRUE]

\* _load_policy (304-308): with a policy the name `policy` (307) is
\* undefined, so the call raises before any message is built.
load_policy(a) ==
  IF a.policy # None
  THEN [agent |-> a, sent |-> <<>>, error |-> "NameError"]
  ELSE [agent |-> a, sent |-> <<>>, error |-> None]

\* _register (310-328)
register(a) ==
  IF a.agent_type \in PacmanRoles
  THEN [agent |-> [a EXCEPT !.agent_class = a.agent_type],
        sent |-> <<"RequestRegister">>, error |-> None]
  ELSE [agent |-> a, sent |-> <<>>, error |-> "ValueError"]

\* _initialize (330-333)
initialize(a) ==
  [agent |-> a, sent |-> <<"RequestInitialization">>, error |-> None]

\* start_experiment (298-302): the three calls in order, stopping at the
\* first that raises
start_experiment(a) ==
  LET l == load_policy(a) IN
  IF l.error # None THEN l ELSE
  LET r == register(l.agent) IN
  IF r.error # None
  THEN [agent |-> r.agent, sent |-> l.sent \o r.sent, error |-> r.error]
  ELSE LET i == initialize(r.agent) IN
       [agent |-> i.agent, sent |-> l.sent \o r.sent \o i.sent,
        error |-> i.error]

\* finish_game (356-361) and the adapter's _log_behavior_count (363-365):
\* for the role 'ai' the first statement reads self.pacman, which an adapter
\* agent does not have.
finish_game(a) == IF a.agent_type = "ai" THEN "AttributeError" ELSE None

\* ------------------------------------------------------ ghost adapters
\* agents.GhostAdapterAgent is not among the sources.
GhostAdapterAgent(id) ==
  [agent_id |-> id, is_test_mode |-> FALSE, policy |-> None]

ghost_enable_test_mode(g) == [g EXCEPT !.is_test_mode = TRUE]

GhostStateMessage(g) ==
  [kind |-> "State", agent_id |-> g.agent_id, test_mode |-> g.is_test_mode]

\* ------------------------------------------------------ BerkeleyAdapter
\* An __init__ without the two assertions on the run counts.
init_error_without_asserts(c) ==
  IF c.layout = NoLayout THEN "ValueError: layout"
  ELSE IF ~(MinGhosts <= c.num_ghosts /\ c.num_ghosts <= MaxGhosts)
  THEN "ValueError: ghosts"
  ELSE IF c.ghost_agent \notin GhostRoles THEN "ValueError: ghost agent"
  ELSE None

\* __init__ (74-121): the first check that fails, or None
init_error(c) ==
  IF c.layout = NoLayout THEN "ValueError: layout"
  ELSE IF ~(MinGhosts <= c.num_ghosts /\ c.num_ghosts <= MaxGhosts)
  THEN "ValueError: ghosts"
  ELSE IF c.ghost_agent \notin GhostRoles THEN "ValueError: ghost agent"
  ELSE IF ~(c.learn_runs > 0) THEN "AssertionError: learn_runs"
  ELSE IF ~(c.test_runs > 0) THEN "AssertionError: test_runs"
  ELSE None

\* _load_policies_from_file (140-146): the ids the loaded mapping has
load_policies_from_file(filename, content) ==
  IF filename /\ content # "absent"
  THEN (IF content = "pacman" THEN {pacman_index} ELSE {}) \cup GhostIds
  ELSE {}

\* A _log_behavior_count that starts a new list on every call.
log_behavior_count_fresh_list(series, behavior_count) ==
  [b \in DOMAIN series \cup DOMAIN behavior_count |->
     IF b \in DOMAIN behavior_count
     THEN <<behavior_count[b]>>
     ELSE series[b]]

\* _log_behavior_count (148-155): one agent's sequences after its counts
\* were appended
log_behavior_count(series, behavior_count) ==
  [b \in DOMAIN series \cup DOMAIN behavior_count |->
     IF b \in DOMAIN behavior_count
     THEN Append(IF b \in DOMAIN series THEN series[b] ELSE <<>>,
                 behavior_count[b])
     ELSE series[b]]

\* The agent ids of the ghost adapters in self.ghosts (99-109).
ghost_agent_ids == {ghosts[i].agent_id : i \in DOMAIN ghosts}

\* A start that creates no key for any ghost.
new_results_without_keys ==
  [learn_scores |-> <<>>, test_scores |-> <<>>, behavior_count |-> <<>>]

\* start (205-213): a key for every ghost in self.ghosts when the ghosts
\* learn, none otherwise
new_results ==
  [learn_scores |-> <<>>, test_scores |-> <<>>,
   behavior_count |-> IF cfg.ghost_agent = "ai"
                      THEN [id \in ghost_agent_ids |-> <<>>] ELSE <<>>]

\* An append_score that records the scores of the learning loop only.
append_score_learn_only(res, which, s) ==
  IF which = "learn"
  THEN [res EXCEPT !.learn_scores = Append(@, s)]
  ELSE res

\* execute (233, 248): the score goes to the sequence of the running loop
append_score(res, which, s) ==
  IF which = "learn"
  THEN [res EXCEPT !.learn_scores = Append(@, s)]
  ELSE [res EXCEPT !.test_scores = Append(@, s)]

runs(which) == IF which = "learn" THEN cfg.learn_runs ELSE cfg.test_runs

\* ------------------------------------------------------------ the run
Running == error = None

\* The game states the simulator can hand to getAction while its score is s.
GameStates(s) ==
  [score : {s}, pacman : Cells(cfg.layout),
   ghosts : [GhostIds -> Cells(cfg.layout)]]

Configs(noises, layouts, run_counts) ==
  [pacman_agent : PacmanAgentChoices, ghost_agent : GhostAgentChoices,
   num_ghosts : NumGhostsChoices, noise : noises, policy_file : BOOLEAN,
   layout : layouts, learn_runs : run_counts, test_runs : run_counts]

InitWith(configs, envs, noises) ==
  /\ cfg \in configs
  /\ env \in envs
  /\ noise \in noises
  /\ pc = "new"
  /\ error = None
  /\ loop = "learn"
  /\ x = 0
  /\ score = 0
  /\ results = NoResults
  /\ policies = {}
  /\ pacman = NoAgent
  /\ ghosts = <<>>
  /\ sim = NoSim
  /\ wire = NoMessage
  /\ gwire = NoMessage
  /\ files = {}
  /\ hist = NoHist

\* The experiment as the program runs it: the class attribute noise keeps
\* its value 0 (267); the scores of the simulator vary.
Init ==
  InitWith(Configs({DEFAULT_NOISE}, {NoLayout, Layout(1, 1)}, 0 .. MaxRuns),
           {[deltas |-> {-1, 10}, replies |-> ReplyActions,
             reports |-> {[b \in {"seek"} |-> 1]}]},
           {0})

\* BerkeleyAdapter.__init__ (74-138)
Construct ==
  /\ pc = "new" /\ Running
  /\ LET e == init_error(cfg) IN
     /\ error' = IF e = None THEN None ELSE e
     /\ pc' = IF e = None THEN "constructed" ELSE pc
     \* the Pac-Man adapter is built (84) once the layout was found
     /\ pacman' = IF e = "ValueError: layout" THEN pacman
                  ELSE BerkeleyAdapterAgent(cfg.pacman_agent)
     \* the ghosts are built (100-109) once the ghost checks passed
     /\ ghosts' = IF e \in {"ValueError: layout", "ValueError: ghosts",
                            "ValueError: ghost agent"}
                  THEN ghosts
                  ELSE [id \in GhostIds |-> GhostAdapterAgent(id)]
  /\ UNCHANGED <<cfg, env, noise, loop, x, score, results, policies, sim,
                 wire, gwire, files, hist>>

\* BerkeleyAdapter.start (202-224)
Start ==
  /\ pc = "constructed" /\ Running
  /\ results' = new_results
  /\ \E content \in PolicyFiles :
       LET loaded == load_policies_from_file(cfg.policy_file, content)
           p == [pacman EXCEPT
                   !.policy = IF pacman_index \in loaded
                              THEN "policy" ELSE None,
                   !.layout = cfg.layout]
           s == start_experiment(p)
       IN /\ policies' = loaded
          /\ pacman' = s.agent
          /\ error' = s.error
          /\ pc' = IF s.error = None THEN "loop" ELSE pc
          /\ hist' = [hist EXCEPT !.experiments = @ + 1, !.setup = s.sent]
          /\ wire' = IF s.sent = <<>> THEN wire
                     ELSE [kind |-> s.sent[Len(s.sent)],
                           agent_id |-> pacman_index]
  /\ loop' = "learn"
  /\ x' = 0
  /\ UNCHANGED <<cfg, env, noise, score, ghosts, sim, gwire, files>>

\* execute (230, 245): pacman.start_game() at the head of an iteration
PacmanStartGame ==
  /\ pc = "loop" /\ Running
  /\ x < runs(loop)
  /\ pacman' = start_game(pacman)
  /\ wire' = RequestGameStartMessage(pacman)
  /\ hist' = [hist EXCEPT !.starts[pacman_index] = @ + 1,
                          !.at_start = pacman]
  /\ pc' = "run_game"
  /\ UNCHANGED <<cfg, env, noise, error, loop, x, score, results, policies,
                 ghosts, sim, gwire, files>>

\* _run_game (159-166): every ghost starts the game and gets its policy
GhostsStartGame ==
  /\ pc = "run_game" /\ Running
  /\ ghosts' = [id \in GhostIds |->
                  IF cfg.policy_file /\ id \in policies
                  THEN [ghosts[id] EXCEPT !.policy = "policy"]
                  ELSE ghosts[id]]
  /\ hist' = [hist EXCEPT
                !.starts = [id \in 0 .. MaxGhosts |->
                              IF id \in GhostIds THEN @[id] + 1 ELSE @[id]],
                !.at_start = NoHist.at_start]
  /\ sim' = NoSim
  /\ pc' = "simulating"
  /\ UNCHANGED <<cfg, env, noise, error, loop, x, score, results, policies,
                 pacman, wire, gwire, files>>

\* The answer of the responder to a State message.
Reply(action) == [kind |-> "Action", action |-> action]

\* A call of pacman.getAction up to the blocking communicate: what the
\* adapter sends and becomes.
Decide(gs, errs) ==
  /\ pacman' = getAction_request(pacman, gs)
  /\ wire' = StateMessage([pacman EXCEPT !.game_state = gs], errs)
  /\ hist' = [hist EXCEPT !.decides = @ + 1, !.prev_obs = hist.last_obs,
                          !.last_obs = gs.score, !.sent_in = loop,
                          !.prev_reply = hist.last_reply,
                          !.rewards = @ + StateMessage(
                                [pacman EXCEPT !.game_state = gs], errs).reward]

\* run_berkeley_games (169-172): the simulator asks Pac-Man for its move;
\* getAction sends the state and waits for the answer
PacmanDecide ==
  /\ pc = "simulating" /\ Running
  /\ sim.who = pacman_index /\ sim.turn < MaxTurns
  /\ \E gs \in GameStates(sim.score) :
       \E errs \in NoiseDraws(noise, cfg.num_ghosts) : Decide(gs, errs)
  /\ pc' = "deciding"
  /\ UNCHANGED <<cfg, env, noise, error, loop, x, score, results, policies,
                 ghosts, sim, gwire, files>>

\* run_berkeley_games: the simulator asks the next ghost for its move
GhostDecide ==
  /\ pc = "simulating" /\ Running
  /\ sim.who \in GhostIds
  /\ gwire' = GhostStateMessage(ghosts[sim.who])
  /\ hist' = [hist EXCEPT !.gsent_in = loop]
  /\ sim' = [sim EXCEPT !.who = IF sim.who = cfg.num_ghosts
                                THEN pacman_index ELSE sim.who + 1]
  /\ UNCHANGED <<cfg, env, noise, pc, error, loop, x, score, results,
                 policies, pacman, ghosts, wire, files>>

\* run_berkeley_games returns: the game is over, after Pac-Man's last move
\* or after the move of the last ghost
GameOver ==
  /\ pc = "simulating" /\ Running
  /\ sim.turn = MaxTurns /\ sim.who \in {pacman_index, 1}
  /\ sim' = [sim EXCEPT !.who = pacman_index]
  /\ pc' = "final"
  /\ UNCHANGED <<cfg, env, noise, error, loop, x, score, results, policies,
                 pacman, ghosts, wire, gwire, files, hist>>

\* _run_game (175): Pac-Man sees the final state
FinalDecide ==
  /\ pc = "final" /\ Running
  /\ \E gs \in GameStates(sim.score) :
       \E errs \in NoiseDraws(noise, cfg.num_ghosts) : Decide(gs, errs)
  /\ pc' = "final_deciding"
  /\ UNCHANGED <<cfg, env, noise, error, loop, x, score, results, policies,
                 ghosts, sim, gwire, files>>

\* communicate returns inside send_state (420): the answer arrives, getAction
\* keeps its action and returns it (292-294).  During the game the simulator
\* then applies the move and the score changes; after the game _run_game
\* goes on.
ReceiveAction ==
  /\ pc \in {"deciding", "final_deciding"} /\ Running
  /\ \E action \in (IF pc = "deciding" THEN env.replies
                    ELSE FinalReplyActions) :
       /\ pacman' = getAction_return(pacman, Reply(action))
       /\ hist' = [hist EXCEPT !.replies = @ + 1, !.last_reply = action]
  /\ IF pc = "deciding"
     THEN /\ \E d \in env.deltas :
               sim' = [score |-> sim.score + d, turn |-> sim.turn + 1,
                       who |-> 1]
          /\ pc' = "simulating"
     ELSE /\ sim' = sim
          /\ pc' = "update"
  /\ UNCHANGED <<cfg, env, noise, error, loop, x, score, results, policies,
                 ghosts, wire, gwire, files>>

\* _run_game (176-177): every ghost sees the final state
GhostsUpdate ==
  /\ pc = "update" /\ Running
  /\ gwire' = GhostStateMessage(ghosts[cfg.num_ghosts])
  /\ hist' = [hist EXCEPT !.gsent_in = loop]
  /\ pc' = "log"
  /\ UNCHANGED <<cfg, env, noise, error, loop, x, score, results, policies,
                 pacman, ghosts, sim, wire, files>>

\* _run_game (180-185): the behavior counts of the ghosts are logged and the
\* score of the game is returned
\* Indexing results['behavior_count'] with an agent id that has no key
\* (152) raises KeyError.
LogBehavior ==
  /\ pc = "log" /\ Running
  /\ IF cfg.ghost_agent # "ai"
     THEN /\ UNCHANGED <<results, hist, error>>
          /\ score' = sim.score
          /\ pc' = "scored"
     ELSE IF ghost_agent_ids \subseteq DOMAIN results.behavior_count
     THEN /\ \E counts \in [ghost_agent_ids -> env.reports] :
               /\ results' = [results EXCEPT !.behavior_count =
                                [id \in DOMAIN @ |->
                                   IF id \in ghost_agent_ids
                                   THEN log_behavior_count(@[id], counts[id])
                                   ELSE @[id]]]
               /\ hist' = [hist EXCEPT !.reported = counts]
          /\ error' = error
          /\ score' = sim.score
          /\ pc' = "scored"
     ELSE /\ error' = "KeyError"
          /\ UNCHANGED <<results, hist, score, pc>>
  /\ UNCHANGED <<cfg, env, noise, loop, x, policies, pacman, ghosts, sim,
                 wire, gwire, files>>

\* execute (233-235, 248-250): the score is appended
AppendScore ==
  /\ pc = "scored" /\ Running
  /\ results' = append_score(results, loop, score)
  /\ pacman' = [pacman EXCEPT !.scores = Append(@, score)]
  /\ pc' = "finish"
  /\ UNCHANGED <<cfg, env, noise, error, loop, x, score, policies, ghosts,
                 sim, wire, gwire, files, hist>>

\* execute (236, 251): pacman.finish_game(), then the next iteration
PacmanFinishGame ==
  /\ pc = "finish" /\ Running
  /\ error' = finish_game(pacman)
  /\ pc' = IF finish_game(pacman) = None THEN "loop" ELSE pc
  /\ x' = IF finish_game(pacman) = None THEN x + 1 ELSE x
  \* the episode is over: its call counts start again
  /\ hist' = IF finish_game(pacman) = None
             THEN [hist EXCEPT !.starts = NoHist.starts, !.decides = 0,
                               !.prev_obs = 0, !.last_obs = 0,
                               !.replies = 0, !.last_reply = NORTH,
                               !.finishes = @ + 1,
                               !.prev_reply = NORTH, !.rewards = 0]
             ELSE [hist EXCEPT !.finishes = @ + 1]
  /\ UNCHANGED <<cfg, env, noise, loop, score, results, policies, pacman,
                 ghosts, sim, wire, gwire, files>>

\* execute (238-240): after the learning loop every adapter is switched
EnableTestMode ==
  /\ pc = "loop" /\ Running
  /\ loop = "learn" /\ x = runs(loop)
  /\ pacman' = enable_test_mode(pacman)
  /\ ghosts' = [id \in GhostIds |-> ghost_enable_test_mode(ghosts[id])]
  /\ loop' = "test"
  /\ x' = 0
  /\ hist' = [hist EXCEPT !.switches = @ + 1]
  /\ UNCHANGED <<cfg, env, noise, pc, error, score, results, policies, sim,
                 wire, gwire, files>>

\* stop (253-262), entered when the testing loop of execute is over.
\* _save_policies (188) reads self.pacman_class, which nothing sets.
Stop ==
  /\ pc = "loop" /\ Running
  /\ loop = "test" /\ x = runs(loop)
  /\ error' = IF cfg.policy_file THEN "AttributeError" ELSE None
  /\ files' = IF cfg.policy_file THEN files ELSE files \cup {"output_file"}
  /\ pc' = IF cfg.policy_file THEN "stop" ELSE "done"
  /\ UNCHANGED <<cfg, env, noise, loop, x, score, results, policies, pacman,
                 ghosts, sim, wire, gwire, hist>>

Next ==
  \/ Construct
  \/ Start
  \/ PacmanStartGame
  \/ GhostsStartGame
  \/ PacmanDecide
  \/ GhostDecide
  \/ GameOver
  \/ FinalDecide
  \/ ReceiveAction
  \/ GhostsUpdate
  \/ LogBehavior
  \/ AppendScore
  \/ PacmanFinishGame
  \/ EnableTestMode
  \/ Stop

Spec == Init /\ [][Next]_vars

\* The position reports of send_state: the class attribute noise is the
\* input (a caller may assign it; the class sets 0).  Either one ghost moves
\* on a layout of two cells in a row, or two ghosts share a single cell.
NoiseConfigs ==
  {c \in [pacman_agent : {"random"}, ghost_agent : {"random"},
          num_ghosts : {1, 2}, noise : {DEFAULT_NOISE},
          policy_file : {FALSE}, layout : {Layout(2, 1), Layout(1, 1)},
          learn_runs : {1}, test_runs : {1}] :
     (c.num_ghosts = 1) = (c.layout = Layout(2, 1))}

InitNoise ==
  InitWith(NoiseConfigs,
           {[deltas |-> {10}, replies |-> {"Stop"},
             reports |-> {[b \in {"seek"} |-> 1]}]},
           0 .. MaxNoise)

SpecNoise == InitNoise /\ [][Next]_vars

\* The noise argument of BerkeleyAdapter.__init__ (62, passed by the command
\* line at 511) varies; the class attribute is what the class sets (267).
InitConfiguredNoise ==
  InitWith({c \in [pacman_agent : {"random"}, ghost_agent : {"random"},
                   num_ghosts : {1, 2}, noise : 0 .. MaxNoise,
                   policy_file : {FALSE},
                   layout : {Layout(2, 1), Layout(1, 1)},
                   learn_runs : {1}, test_runs : {1}] :
              (c.num_ghosts = 1) = (c.layout = Layout(2, 1))},
           {[deltas |-> {10}, replies |-> {"Stop"},
             reports |-> {[b \in {"seek"} |-> 1]}]},
           {0})

SpecConfiguredNoise == InitConfiguredNoise /\ [][Next]_vars

\* The behavior counts: the ghosts report different label sets and counts.
BehaviorReports ==
  {<<>>, [b \in {"seek"} |-> 1], [b \in Labels |-> IF b = "seek" THEN 2 ELSE 1]}

InitBehavior ==
  InitWith([pacman_agent : {"random"}, ghost_agent : GhostRoles,
            num_ghosts : {1, 2}, noise : {DEFAULT_NOISE},
            policy_file : {FALSE}, layout : {Layout(1, 1)},
            learn_runs : 1 .. MaxRuns, test_runs : {1}],
           {[deltas |-> {10}, replies |-> {"Stop"},
             reports |-> BehaviorReports]},
           {0})

SpecBehavior == InitBehavior /\ [][Next]_vars

\* ------------------------------------------------------ src/messages.py
\* The message classes of src/messages.py: the tag of each class (1-8) and
\* the fields its constructor takes and stores besides the tag (10-70).
MessageCatalog ==
  [State |-> {"index", "pacman_position", "ghost_positions",
              "food_positions", "wall_positions", "legal_actions", "reward",
              "executed_action", "explore"},
   Action |-> {"index", "action"},
   Init |-> {},
   Save |-> {"index", "filename"},
   Load |-> {"index", "filename"},
   Ack |-> {},
   RequestBehaviorCount |-> {"index"},
   BehaviorCount |-> {"count"}]

\* send_state (409-418): the keyword arguments the adapter passes to
\* messages.StateMessage.
StateMessageKeywords ==
  {"agent_id", "agent_positions", "food_positions", "fragile_agents",
   "wall_positions", "legal_actions", "reward", "executed_action",
   "test_mode"}

\* What a caller can pass for a constructor argument: nothing (the default
\* None) or a value.
FieldValues == {None, "given"}

\* BaseMessage.__init__ (10-12): stores the tag, checks nothing
BaseMessage(msg_type) == [kind |-> msg_type]

\* The constructors of the message classes (15-70): each stores its
\* arguments as they come, None included, and raises nothing.
AckMessage == BaseMessage("Ack")
InitMessage == BaseMessage("Init")
ActionMessage(index, action) ==
  BaseMessage("Action") @@ [index |-> index, action |-> action]
SaveMessage(index, filename) ==
  BaseMessage("Save") @@ [index |-> index, filename |-> filename]
LoadMessage(index, filename) ==
  BaseMessage("Load") @@ [index |-> index, filename |-> filename]
RequestBehaviorCountMessage(index) ==
  BaseMessage("RequestBehaviorCount") @@ [index |-> index]
BehaviorCountMessage(count) ==
  BaseMessage("BehaviorCount") @@ [count |-> count]
\* messages.StateMessage (20-33), under another name than the StateMessage
\* the adapter builds
CatalogStateMessage(fields) == BaseMessage("State") @@ fields

\* A caller constructs a message of src/messages.py and hands it on.
NewMessage ==
  /\ Running
  /\ \E kind \in DOMAIN MessageCatalog :
       \E a \in [MessageCatalog[kind] -> FieldValues] :
          wire' = CASE kind = "Ack" -> AckMessage
                    [] kind = "Init" -> InitMessage
                    [] kind = "Action" -> ActionMessage(a.index, a.action)
                    [] kind = "Save" -> SaveMessage(a.index, a.filename)
                    [] kind = "Load" -> LoadMessage(a.index, a.filename)
                    [] kind = "RequestBehaviorCount"
                         -> RequestBehaviorCountMessage(a.index)
                    [] kind = "BehaviorCount" -> BehaviorCountMessage(a.count)
                    [] kind = "State" -> CatalogStateMessage(a)
  /\ UNCHANGED <<cfg, env, noise, pc, error, loop, x, score, results,
                 policies, pacman, ghosts, sim, gwire, files, hist>>

InitMessages ==
  InitWith([pacman_agent : {"random"}, ghost_agent : {"random"},
            num_ghosts : {1}, noise : {DEFAULT_NOISE},
            policy_file : {FALSE}, layout : {Layout(1, 1)},
            learn_runs : {1}, test_runs : {1}],
           {[deltas |-> {10}, replies |-> {"Stop"},
             reports |-> {[b \in {"seek"} |-> 1]}]},
           {0})

NextMessages == NewMessage

SpecMessages == InitMessages /\ [][NextMessages]_vars

\* ================================================================ claims
AllIds == {pacman_index} \cup GhostIds

\* The configuration passes every check of BerkeleyAdapter.__init__.
SetupValid ==
  /\ cfg.layout # NoLayout
  /\ cfg.num_ghosts \in 1 .. 4
  /\ cfg.ghost_agent \in {"random", "ai"}
  /\ cfg.learn_runs > 0
  /\ cfg.test_runs > 0

RunOver == pc = "done" \/ error # None

\* C1: for any learn_runs > 0 and test_runs > 0 (and an otherwise valid
\* configuration with a supported Pac-Man role), a run that got through
\* start and is over has executed exactly learn_runs + test_runs episodes:
\* learn_scores has learn_runs entries and test_scores has test_runs.
C1_RunExecutesAllEpisodes ==
  (SetupValid /\ cfg.pacman_agent \in PacmanRoles /\ pc # "constructed"
     /\ RunOver)
    => /\ Len(results.learn_scores) = cfg.learn_runs
       /\ Len(results.test_scores) = cfg.test_runs

\* C2: a State message sent while the learning loop runs carries
\* test_mode = FALSE, one sent while the testing loop runs carries
\* test_mode = TRUE, for Pac-Man's adapter and for the ghosts', the State
\* message after the end of the game included.
C2_TestModeFollowsLoop ==
  /\ wire.kind = "State" => (wire.test_mode = (hist.sent_in = "test"))
  /\ gwire.kind = "State" => (gwire.test_mode = (hist.gsent_in = "test"))

C2_Witness ==
  /\ pc = "update" /\ loop = "test"
  /\ wire.kind = "State" /\ wire.test_mode /\ hist.sent_in = "test"
  /\ gwire.kind = "State" /\ gwire.test_mode /\ hist.gsent_in = "test"
  /\ Len(results.learn_scores) = 2

\* The phase of the experiment the run is in.
Phase ==
  IF pc \in {"new", "constructed"} THEN "Setup"
  ELSE IF pc \in {"stop", "done"} THEN "Teardown"
  ELSE IF loop = "learn"
  THEN (IF pc = "loop" /\ x = cfg.learn_runs THEN "Switching" ELSE "Learning")
  ELSE (IF pc = "loop" /\ x = cfg.test_runs THEN "Teardown" ELSE "Testing")

PhaseRank(p) ==
  CASE p = "Setup" -> 0 [] p = "Learning" -> 1 [] p = "Switching" -> 2
    [] p = "Testing" -> 3 [] p = "Teardown" -> 4

AllInTestMode ==
  pacman.is_test_mode /\ \A id \in DOMAIN ghosts : ghosts[id].is_test_mode

NoneInTestMode ==
  ~pacman.is_test_mode /\ \A id \in DOMAIN ghosts : ~ghosts[id].is_test_mode

PhaseFlagsAgree ==
  /\ hist.switches <= 1
  /\ PhaseRank(Phase) <= 2 => (NoneInTestMode /\ hist.switches = 0)
  /\ PhaseRank(Phase) >= 3 => (AllInTestMode /\ hist.switches = 1)

\* C3: every step keeps the phase or moves it to the next one of Setup,
\* Learning, Switching, Testing, Teardown; the switch to test mode happens
\* once, between the last learning and the first testing episode, for every
\* adapter; a test-mode flag that is true stays true.
C3_PhasesAdvanceLinearly ==
  [][/\ PhaseRank(Phase') \in {PhaseRank(Phase), PhaseRank(Phase) + 1}
     /\ PhaseFlagsAgree'
     /\ pacman.is_test_mode => pacman'.is_test_mode
     /\ \A id \in DOMAIN ghosts :
          ghosts[id].is_test_mode => ghosts'[id].is_test_mode]_vars

C3_Witness ==
  /\ Phase = "Testing" /\ pc = "simulating" /\ x = 1
  /\ AllInTestMode /\ hist.switches = 1

\* C4: the reward of a State message is the score seen by that decide minus
\* the score seen by the decide before it in the same episode, and minus 0
\* for the first decide of an episode.
C4_RewardIsScoreDifference ==
  (wire.kind = "State" /\ hist.decides >= 1)
    => wire.reward = hist.last_obs
                       - (IF hist.decides = 1 THEN 0 ELSE hist.prev_obs)

C4_Witness ==
  /\ wire.kind = "State" /\ hist.decides = 3
  /\ hist.prev_obs = 10 /\ hist.last_obs = 9 /\ wire.reward = -1
  /\ Len(results.learn_scores) = 1

\* The difference between a reported coordinate pair (row, column) and the
\* true position (column, row) the simulator gave.
OffsetOf(reported, true) == <<reported[1] - true[2], reported[2] - true[1]>>

Within(d, n) == -n <= d /\ d <= n

\* C5: in every State message each reported coordinate of every ghost is at
\* most the noise magnitude away from the ghost's true coordinate, and
\* Pac-Man's own position is reported with offset 0.
C5_NoiseIsBounded ==
  wire.kind = "State"
    => /\ OffsetOf(wire.agent_positions[pacman_index],
                   pacman.game_state.pacman) = <<0, 0>>
       /\ \A id \in GhostIds :
            LET d == OffsetOf(wire.agent_positions[id],
                              pacman.game_state.ghosts[id])
            IN Within(d[1], noise) /\ Within(d[2], noise)

C5_Witness ==
  /\ wire.kind = "State" /\ noise >= 1
  /\ pacman.game_state.pacman = <<1, 0>>
  /\ wire.agent_positions[pacman_index] = <<0, 1>>
  /\ \E id \in GhostIds :
       OffsetOf(wire.agent_positions[id], pacman.game_state.ghosts[id])
         = <<noise, -noise>>

\* The sequence of label b in the behavior counts of one agent; empty when
\* the label was never reported.
SeriesOf(counts, b) == IF b \in DOMAIN counts THEN counts[b] ELSE <<>>

\* C6: a step that logs the behavior counts appends, for every ghost and
\* every label the ghost reported, exactly the reported count to the
\* sequence of that label (an unseen label starting from the empty
\* sequence) and leaves the sequences of the other labels as they are; no
\* other step changes a sequence; no label is ever dropped.
C6_BehaviorCountsAppendOnly ==
  [][\A id \in DOMAIN results.behavior_count :
       LET old == results.behavior_count[id]
           new == results'.behavior_count[id]
           logged == pc = "log" /\ pc' = "scored"
       IN /\ DOMAIN old \subseteq DOMAIN new
          /\ \A b \in Labels :
               IF logged /\ b \in DOMAIN hist'.reported[id]
               THEN new[b] = Append(SeriesOf(old, b), hist'.reported[id][b])
               ELSE SeriesOf(new, b) = SeriesOf(old, b)
                    /\ (b \in DOMAIN new <=> b \in DOMAIN old)]_vars

C6_Witness ==
  \E id \in DOMAIN results.behavior_count :
    LET counts == results.behavior_count[id] IN
    /\ DOMAIN counts = Labels
    /\ counts["seek"] = <<1, 2>>
    /\ counts["flee"] = <<1>>

\* C7: with a configuration that fails a check of Setup the run never
\* leaves the constructor: it ends there with an error, no results are
\* created, no adapter starts a game or decides, nothing is sent.
C7_NoEpisodeAfterFailedSetup ==
  ~SetupValid
    => /\ pc = "new"
       /\ (error = None => pacman = NoAgent)
       /\ results = NoResults
       /\ wire = NoMessage /\ gwire = NoMessage
       /\ hist = NoHist

C7_Witness ==
  /\ cfg.num_ghosts = 5 /\ cfg.layout # NoLayout
  /\ pc = "new" /\ error = "ValueError: ghosts"

\* C8: no adapter object exists whose role is outside the supported roles.
C8_NoAdapterWithUnsupportedRole ==
  Exists(pacman) => pacman.agent_type \in PacmanRoles

Sent(kind) == \E i \in DOMAIN hist.setup : hist.setup[i] = kind

\* C9: once start_experiment has run for an adapter with a supported role,
\* it has run once, a Load (policy) message was sent exactly if the adapter
\* holds a policy, and the registration message was sent, after the Load.
C9_LoadIffPolicyThenRegister ==
  (hist.experiments >= 1 /\ pacman.agent_type \in PacmanRoles)
    => /\ hist.experiments = 1
       /\ Sent("Policy") <=> pacman.policy # None
       /\ Sent("RequestRegister")
       /\ \A i, j \in DOMAIN hist.setup :
            (hist.setup[i] = "Policy" /\ hist.setup[j] = "RequestRegister")
              => i < j

\* C10: within an episode every adapter has had start_game called exactly
\* once before Pac-Man or a ghost decides, never more than once, and right
\* after Pac-Man's start_game its previous_score is 0 and its
\* previous_action is the default, whatever the last episode left.
C10_StartGameOncePerEpisode ==
  /\ \A id \in 0 .. MaxGhosts : hist.starts[id] <= 1
  /\ pc = "run_game"
       => /\ hist.starts[pacman_index] = 1 /\ hist.decides = 0
          /\ pacman.previous_score = 0
          /\ pacman.previous_action = NORTH
  /\ (pc \in {"simulating", "final", "update", "log", "scored", "finish"}
        \/ hist.decides > 0)
       => \A id \in AllIds : hist.starts[id] = 1
  /\ pc \in {"new", "constructed", "loop"}
       => \A id \in 0 .. MaxGhosts : hist.starts[id] = 0

C10_Witness ==
  /\ pc = "run_game" /\ Len(pacman.scores) >= 1
  /\ pacman.game_state.score # 0
  /\ pacman.scores[Len(pacman.scores)] = pacman.game_state.score
  /\ pacman.previous_score = 0 /\ pacman.previous_action = NORTH

\* C11: at the end of every episode Pac-Man's adapter has sent exactly one
\* State message after the game was over, and finish_game then completes
\* without error, for the role 'ai' as for any other: the run is never
\* stopped by an error inside finish_game.
C11_FinishGameCompletes ==
  /\ pc \in {"update", "log", "scored", "finish"}
       => hist.decides = MaxTurns + 1
  /\ (pc = "finish" /\ Exists(pacman)) => error = None

ExecuteCompleted == pc \in {"stop", "done"}

\* C12: in every run in which execute completed and that is over, the
\* results have been written to the output file, whether or not a policy
\* file is configured, and the results in memory are the complete ones.
C12_ResultsPersisted ==
  (ExecuteCompleted /\ RunOver)
    => /\ "output_file" \in files
       /\ Len(results.learn_scores) = cfg.learn_runs
       /\ Len(results.test_scores) = cfg.test_runs

\* C13: every message Pac-Man's adapter hands to its channel has a kind of
\* the message catalog, and a State message is built with exactly the
\* fields the catalog defines for State.
C13_MessagesInCatalog ==
  /\ wire.kind # None => wire.kind \in DOMAIN MessageCatalog
  /\ wire.kind = "State" => StateMessageKeywords = MessageCatalog.State

\* C14: no message object exists in which a field of its kind is missing:
\* a constructor call that leaves out a field (a Save without filename, a
\* Load without filename) is rejected with an error instead of yielding a
\* message.
C14_MissingFieldRejected ==
  wire.kind \in DOMAIN MessageCatalog
    => \A f \in MessageCatalog[wire.kind] : wire[f] # None

\* The State messages of Pac-Man's adapter that have no answer yet.
Outstanding == hist.decides - hist.replies

\* C15: on Pac-Man's channel at most one request is without answer; a
\* State message is only sent when none is; while one is outstanding the
\* only thing that happens is the arrival of its one answer: no adapter,
\* Pac-Man's or a ghost's, sends anything, and getAction returns the action
\* of that answer and keeps it as previous_action.
C15_RequestsAndRepliesAlternate ==
  [][/\ Outstanding' \in {0, 1}
     /\ hist'.decides = hist.decides + 1
          => Outstanding = 0 /\ Outstanding' = 1 /\ wire'.kind = "State"
     /\ Outstanding = 1
          => /\ hist'.replies = hist.replies + 1
             /\ hist'.decides = hist.decides
             /\ wire' = wire /\ gwire' = gwire
             /\ hist'.gsent_in = hist.gsent_in
             /\ pacman'.previous_action = hist'.last_reply]_vars

C15_Witness ==
  /\ pc = "deciding" /\ Outstanding = 1
  /\ hist.decides = 2 /\ hist.replies = 1
  /\ hist.last_reply = "Stop" /\ pacman.previous_action = "Stop"
  /\ cfg.num_ghosts = 2 /\ gwire.kind = "State"

\* C16: the score of an episode is appended to the score sequence of its
\* loop only after finish_game has been called for that episode: at any
\* moment there are at most as many scores as calls of finish_game.
C16_ScoreAppendedAfterFinishGame ==
  Len(results.learn_scores) + Len(results.test_scores) <= hist.finishes

\* C17: the executed_action of a State message is the action of the answer
\* to the State message the adapter sent before it in the same episode, and
\* the default NORTH in the first State message of an episode, whatever the
\* episode before ended with.
C17_ExecutedActionIsLastReply ==
  (wire.kind = "State" /\ hist.decides >= 1)
    => wire.executed_action
         = (IF hist.decides = 1 THEN NORTH ELSE hist.prev_reply)

C17_Witness ==
  /\ wire.kind = "State" /\ hist.decides = 2
  /\ Len(pacman.scores) = 1
  /\ hist.prev_reply = "South" /\ wire.executed_action = "South"

\* C18: right after start_game the adapter has the test-mode flag, the
\* policy, the role and every other field it had before the call, except
\* previous_score and previous_action, which are 0 and the default; the
\* message it sent carries Pac-Man's agent id; in the testing loop the
\* adapter is still in test mode after every start_game.
C18_StartGameKeepsSession ==
  pc = "run_game"
    => /\ pacman.is_test_mode = hist.at_start.is_test_mode
       /\ pacman.policy = hist.at_start.policy
       /\ pacman.agent_type = hist.at_start.agent_type
       /\ pacman = [hist.at_start EXCEPT !.previous_score = 0,
                                         !.previous_action = NORTH]
       /\ wire.kind = "RequestGameStart" /\ wire.agent_id = pacman_index
       /\ loop = "test" => pacman.is_test_mode

C18_Witness ==
  /\ pc = "run_game" /\ loop = "test" /\ x = 1
  /\ pacman.is_test_mode /\ hist.at_start.is_test_mode
  /\ hist.at_start.previous_score # 0 /\ pacman.previous_score = 0
  /\ hist.at_start.previous_action = "Stop"

\* C19: the noise magnitude the adapter uses when it builds a State message
\* is the noise the experiment was constructed with.
C19_ConfiguredNoiseIsUsed ==
  wire.kind = "State" => noise = cfg.noise

\* C20: within an episode the rewards of the State messages Pac-Man's
\* adapter has sent so far add up to the score the last of them observed;
\* once the State message of the finished game is sent they add up to the
\* final score of the game, which is the score appended for the episode.
C20_RewardsSumToScore ==
  /\ (wire.kind = "State" /\ hist.decides >= 1)
       => hist.rewards = hist.last_obs
  /\ pc \in {"final_deciding", "update", "log", "scored", "finish"}
       => hist.rewards = sim.score
  /\ pc = "finish"
       => hist.rewards = pacman.scores[Len(pacman.scores)]

C20_Witness ==
  /\ pc = "finish" /\ hist.decides = 3
  /\ wire.kind = "State" /\ wire.reward = -1
  /\ hist.rewards = 9 /\ sim.score = 9
  /\ results.learn_scores = <<9>>

\* The iterations of the two loops of execute that ran to their end.
EpisodesCompleted == IF loop = "learn" THEN x ELSE cfg.learn_runs + x

\* C21: the scores Pac-Man's adapter holds are the learn scores of the
\* experiment followed by its test scores, and between two episodes there
\* are as many of them as episodes were completed.
C21_PacmanScoresAreLearnThenTest ==
  /\ pacman.scores = results.learn_scores \o results.test_scores
  /\ pc = "loop" => Len(pacman.scores) = EpisodesCompleted

C21_Witness ==
  /\ pc = "loop" /\ loop = "test" /\ x = 1
  /\ results.learn_scores = <<9>> /\ results.test_scores = <<20>>
  /\ pacman.scores = <<9, 20>>

\* C22: once start has run, the behavior counts of the experiment have a
\* key for exactly the ghost ids 1 .. num_ghosts when the ghosts learn
\* (ghost_agent 'ai') and no key at all otherwise, from then on and
\* whatever is logged; logging never fails on an agent id without key.
C22_BehaviorCountKeyedByGhosts ==
  /\ hist.experiments >= 1
       => DOMAIN results.behavior_count
            = (IF cfg.ghost_agent = "ai" THEN 1 .. cfg.num_ghosts ELSE {})
  /\ cfg.ghost_agent # "ai" => results.behavior_count = <<>>
  /\ error # "KeyError"

C22_Witness ==
  /\ cfg.ghost_agent = "ai" /\ cfg.num_ghosts = 2
  /\ pc = "scored" /\ Len(results.learn_scores) = 1
  /\ DOMAIN results.behavior_count = {1, 2}
  /\ \A id \in {1, 2} : Len(SeriesOf(results.behavior_count[id], "seek")) = 2

====
